---- MODULE Spec2Model ----
(***************************************************************************)
(* Model of veni_vici/src/App.jsx: the App component of the "Veni Vici"    *)
(* random artwork viewer.  The component holds four pieces of React state  *)
(* (item, loading, error, banList); fetchRandomArtwork is an async         *)
(* function that suspends at `await fetch(...)` and `await                 *)
(* response.json()`, and handleBanToggle edits the ban list.               *)
(*                                                                         *)
(* JavaScript strings are modelled as sequences of characters (one-letter  *)
(* TLA+ strings); a colon-free word that the code only ever uses whole     *)
(* ("artist", "style", "place", the URL prefix) is a single element.       *)
(* A ban-list entry is the string `${type}:${value}` of line 85.           *)
(***************************************************************************)
EXTENDS Integers, Sequences, FiniteSets, TLC

VARIABLES
    item,             \* useState(null), line 5: the record on display, or NoItem
    loading,          \* useState(false), line 6
    error,            \* useState(null), line 7
    banList,          \* useState([]), line 8: sequence of "type:value" strings
    mounted,          \* whether the mount effect of lines 78-80 has run
    req,              \* the fetchRandomArtwork call in flight: its position (pc),
                      \* what called it (by), the status of the response it
                      \* holds (ok) and the banList its closure captured (ban)
    data,             \* line 20: the parsed body the continuation works on
    filteredArtworks, \* line 24: the filter's result in the continuation
    before,           \* toggle harness: the ban list before the first toggle
    args,             \* toggle harness: the <<type, value>> being toggled
    count,            \* toggle harness: how many times it has been toggled
    calls,            \* overlapping calls: the calls of fetchRandomArtwork in
                      \* flight, each like req, by the order they were started
    chosen            \* overlapping calls: newItem (line 56) of the call that
                      \* most recently reached line 67, or NoItem

vars == <<item, loading, error, banList, mounted, req, data, filteredArtworks,
          before, args, count, calls, chosen>>

sessionVars == <<item, loading, error, banList, mounted, req>>
filterVars == <<data, filteredArtworks>>
toggleVars == <<before, args, count>>
overlapVars == <<calls, chosen>>

(***************************************************************************)
(* Bounds of the model.                                                    *)
(***************************************************************************)
\* longest batch (data.data) a response carries
MaxBatch == 2
\* longest ban list the session grows
MaxBan == 2
\* most calls of fetchRandomArtwork in flight at once
MaxCalls == 2

(***************************************************************************)
(* Values.                                                                 *)
(***************************************************************************)
\* a field that is null or missing in the JSON (distinct from every string)
null == <<"<null>">>
\* the state `item` before the first successful refresh (useState(null))
NoItem == [isNull |-> TRUE]
\* the state `error` when no message is set (useState(null), setError(null))
NoError == "null"

\* JavaScript truthiness of a string-or-null: !value is true for null and ''
Truthy(value) == value /= null /\ value /= <<>>

\* Array.prototype.includes
includes(list, x) == \E i \in 1..Len(list) : list[i] = x

\* the three ban types the component passes to handleBanToggle
TypeArtist == <<"artist">>
TypeStyle == <<"style">>
TypePlace == <<"place">>
Types == {TypeArtist, TypeStyle, TypePlace}

\* the template literal `${type}:${value}`
banValueOf(type, value) == type \o <<":">> \o value

\* the messages of lines 47, 69 and 72
MsgNoMatch == "No artworks found that match your criteria. Try removing some items from your ban list."
MsgNoArtworks == "No artworks found. Please try again."
MsgFetchError == "Error fetching artwork: <err.message>"

(***************************************************************************)
(* String.prototype.split(':'): the pieces between the colons.             *)
(***************************************************************************)
firstColon(s) == CHOOSE k \in 1..Len(s) : s[k] = ":" /\ \A j \in 1..(k-1) : s[j] /= ":"

RECURSIVE split(_)
split(s) ==
    IF \A k \in 1..Len(s) : s[k] /= ":"
    THEN <<s>>
    ELSE LET k == firstColon(s)
         IN  <<SubSeq(s, 1, k - 1)>> \o split(SubSeq(s, k + 1, Len(s)))

\* lines 97-100
getDisplayValue(banValue) ==
    LET parts == split(banValue)
    IN  IF Len(parts) > 1 THEN parts[2] ELSE banValue

\* lines 103-106
getBanType(banValue) ==
    LET parts == split(banValue)
    IN  IF Len(parts) > 1 THEN parts[1] ELSE <<"unknown">>

(***************************************************************************)
(* The filter of lines 24-44.  An artwork is a record with the fields the  *)
(* query of line 16 asks for.                                              *)
(***************************************************************************)
\* variant of the callback without the artist test of lines 29-31
keepArtwork_noArtistTest(artwork, bl) ==
    IF ~Truthy(artwork.image_id) THEN FALSE
    ELSE IF Truthy(artwork.style_title)
            /\ includes(bl, banValueOf(TypeStyle, artwork.style_title)) THEN FALSE
    ELSE IF Truthy(artwork.place_of_origin)
            /\ includes(bl, banValueOf(TypePlace, artwork.place_of_origin)) THEN FALSE
    ELSE TRUE

\* variant of the callback without the image test of line 26
keepArtwork_noImageTest(artwork, bl) ==
    IF Truthy(artwork.artist_title)
       /\ includes(bl, banValueOf(TypeArtist, artwork.artist_title)) THEN FALSE
    ELSE IF Truthy(artwork.style_title)
            /\ includes(bl, banValueOf(TypeStyle, artwork.style_title)) THEN FALSE
    ELSE IF Truthy(artwork.place_of_origin)
            /\ includes(bl, banValueOf(TypePlace, artwork.place_of_origin)) THEN FALSE
    ELSE TRUE

\* variant of the callback that also skips an artwork without a style
\* (`!artwork.style_title ||` at line 34)
keepArtwork_dropsUnknownStyle(artwork, bl) ==
    IF ~Truthy(artwork.image_id) THEN FALSE
    ELSE IF Truthy(artwork.artist_title)
            /\ includes(bl, banValueOf(TypeArtist, artwork.artist_title)) THEN FALSE
    ELSE IF ~Truthy(artwork.style_title)
            \/ includes(bl, banValueOf(TypeStyle, artwork.style_title)) THEN FALSE
    ELSE IF Truthy(artwork.place_of_origin)
            /\ includes(bl, banValueOf(TypePlace, artwork.place_of_origin)) THEN FALSE
    ELSE TRUE

\* the callback of data.data.filter(...), lines 24-44
keepArtwork(artwork, bl) ==
    IF ~Truthy(artwork.image_id) THEN FALSE
    ELSE IF Truthy(artwork.artist_title)
            /\ includes(bl, banValueOf(TypeArtist, artwork.artist_title)) THEN FALSE
    ELSE IF Truthy(artwork.style_title)
            /\ includes(bl, banValueOf(TypeStyle, artwork.style_title)) THEN FALSE
    ELSE IF Truthy(artwork.place_of_origin)
            /\ includes(bl, banValueOf(TypePlace, artwork.place_of_origin)) THEN FALSE
    ELSE TRUE

\* data.data.filter(artwork => ...), line 24: keeps the batch's order
filterArtworks(batch, bl) == SelectSeq(batch, LAMBDA artwork : keepArtwork(artwork, bl))

\* the template literal of line 64
imageUrlOf(image_id) ==
    <<"https://www.artic.edu/iiif/2/">> \o image_id \o <<"/full/843,/0/default.jpg">>

\* lines 56-65
newItem(randomArtwork) ==
    [id       |-> randomArtwork.id,
     title    |-> randomArtwork.title,
     artist   |-> randomArtwork.artist_title,
     date     |-> randomArtwork.date_display,
     style    |-> randomArtwork.style_title,
     place    |-> randomArtwork.place_of_origin,
     medium   |-> randomArtwork.medium_display,
     imageUrl |-> imageUrlOf(randomArtwork.image_id)]

(***************************************************************************)
(* A parsed response body (`data` of line 20) is one of                    *)
(*   [kind |-> "null"]              the JSON value null: data.data throws  *)
(*   [kind |-> "nodata"]            an object without a `data` field       *)
(*   [kind |-> "data", data |-> b]  an object whose `data` is the array b  *)
(***************************************************************************)
JsonNull == [kind |-> "null"]
NoData == [kind |-> "nodata"]
WithData(b) == [kind |-> "data", data |-> b]

\* the values Math.floor(Math.random() * filteredArtworks.length) can take
\* (line 53); 0 stands in where the line is not reached
randomIndices(body, bl) ==
    IF body.kind = "data" /\ Len(filterArtworks(body.data, bl)) > 0
    THEN 0..(Len(filterArtworks(body.data, bl)) - 1)
    ELSE {0}

\* variant of the continuation that clears the record when nothing survives
\* the filter (a setItem(null) before line 47)
resume_clearsItem(body, bl, randomIndex, cur, err) ==
    IF body.kind = "null"
    THEN [item |-> cur, error |-> MsgFetchError]
    ELSE IF body.kind = "data" /\ Len(body.data) > 0
    THEN LET filtered == filterArtworks(body.data, bl)
         IN  IF Len(filtered) = 0
             THEN [item |-> NoItem, error |-> MsgNoMatch]
             ELSE [item |-> newItem(filtered[randomIndex + 1]), error |-> err]
    ELSE [item |-> cur, error |-> MsgNoArtworks]

\* variant of the continuation that tests the batch after filtering it: an
\* empty filtered batch falls to the else branch of line 68
resume_testsAfterFilter(body, bl, randomIndex, cur, err) ==
    IF body.kind = "null"
    THEN [item |-> cur, error |-> MsgFetchError]
    ELSE IF body.kind = "data" /\ Len(filterArtworks(body.data, bl)) > 0
    THEN [item |-> newItem(filterArtworks(body.data, bl)[randomIndex + 1]),
          error |-> err]
    ELSE [item |-> cur, error |-> MsgNoArtworks]

\* variant of the continuation that indexes the fetched batch instead of the
\* filtered one (data.data[randomIndex] at line 54)
resume_picksFromBatch(body, bl, randomIndex, cur, err) ==
    IF body.kind = "null"
    THEN [item |-> cur, error |-> MsgFetchError]
    ELSE IF body.kind = "data" /\ Len(body.data) > 0
    THEN LET filtered == filterArtworks(body.data, bl)
         IN  IF Len(filtered) = 0
             THEN [item |-> cur, error |-> MsgNoMatch]
             ELSE [item |-> newItem(body.data[randomIndex + 1]), error |-> err]
    ELSE [item |-> cur, error |-> MsgNoArtworks]

\* variant of the continuation that returns at line 49 without the setError
\* of line 47
resume_silentWhenEmpty(body, bl, randomIndex, cur, err) ==
    IF body.kind = "null"
    THEN [item |-> cur, error |-> MsgFetchError]
    ELSE IF body.kind = "data" /\ Len(body.data) > 0
    THEN LET filtered == filterArtworks(body.data, bl)
         IN  IF Len(filtered) = 0
             THEN [item |-> cur, error |-> err]
             ELSE [item |-> newItem(filtered[randomIndex + 1]), error |-> err]
    ELSE [item |-> cur, error |-> MsgNoArtworks]

\* variant of the continuation that leaves a record already on display in
\* place (a guard on setItem at line 67 that lets only the first success in)
resume_keepsFirst(body, bl, randomIndex, cur, err) ==
    IF body.kind = "null"
    THEN [item |-> cur, error |-> MsgFetchError]
    ELSE IF body.kind = "data" /\ Len(body.data) > 0
    THEN LET filtered == filterArtworks(body.data, bl)
         IN  IF Len(filtered) = 0
             THEN [item |-> cur, error |-> MsgNoMatch]
             ELSE [item |-> IF cur = NoItem
                            THEN newItem(filtered[randomIndex + 1])
                            ELSE cur,
                   error |-> err]
    ELSE [item |-> cur, error |-> MsgNoArtworks]

\* lines 22-75 from the parsed body on: the values the continuation leaves in
\* item and error (cur and err are their values when it runs)
resume(body, bl, randomIndex, cur, err) ==
    IF body.kind = "null"
    THEN [item |-> cur, error |-> MsgFetchError]               \* TypeError, line 72
    ELSE IF body.kind = "data" /\ Len(body.data) > 0           \* line 22
    THEN LET filtered == filterArtworks(body.data, bl)
         IN  IF Len(filtered) = 0
             THEN [item |-> cur, error |-> MsgNoMatch]         \* lines 46-50
             ELSE [item |-> newItem(filtered[randomIndex + 1]), error |-> err]
    ELSE [item |-> cur, error |-> MsgNoArtworks]               \* line 69

(***************************************************************************)
(* handleBanToggle, lines 82-94: the ban list it passes to setBanList (or  *)
(* the unchanged list where it returns early).                             *)
(***************************************************************************)
\* variant that adds the new entry at the front ([banValue, ...banList])
handleBanToggle_prepends(bl, type, value) ==
    IF ~Truthy(value) THEN bl
    ELSE LET banValue == banValueOf(type, value)
         IN  IF includes(bl, banValue)
             THEN SelectSeq(bl, LAMBDA it : it /= banValue)
             ELSE <<banValue>> \o bl

\* variant without the includes test of line 87: it always appends
handleBanToggle_alwaysAppends(bl, type, value) ==
    IF ~Truthy(value) THEN bl
    ELSE Append(bl, banValueOf(type, value))

\* variant without the early return of line 83: an empty value is toggled too
handleBanToggle_noEmptyTest(bl, type, value) ==
    LET banValue == banValueOf(type, value)
    IN  IF includes(bl, banValue)
        THEN SelectSeq(bl, LAMBDA it : it /= banValue)
        ELSE Append(bl, banValue)

\* variant that removes by prefix (item.startsWith(banValue) at line 89)
handleBanToggle_removesByPrefix(bl, type, value) ==
    IF ~Truthy(value) THEN bl
    ELSE LET banValue == banValueOf(type, value)
             startsWith(s) == Len(s) >= Len(banValue)
                              /\ SubSeq(s, 1, Len(banValue)) = banValue
         IN  IF includes(bl, banValue)
             THEN SelectSeq(bl, LAMBDA it : ~startsWith(it))
             ELSE Append(bl, banValue)

handleBanToggle(bl, type, value) ==
    IF ~Truthy(value) THEN bl
    ELSE LET banValue == banValueOf(type, value)
         IN  IF includes(bl, banValue)
             THEN SelectSeq(bl, LAMBDA it : it /= banValue)
             ELSE Append(bl, banValue)

\* the onClick of a ban-list <li>, line 180
clickBanEntry(bl, index) ==
    handleBanToggle(bl, getBanType(bl[index]), getDisplayValue(bl[index]))

\* the onClick of an attribute <span>, lines 132, 141, 150
attributeOf(it, type) ==
    IF type = TypeArtist THEN it.artist
    ELSE IF type = TypeStyle THEN it.style
    ELSE it.place

clickAttribute(bl, it, type) == handleBanToggle(bl, type, attributeOf(it, type))

(***************************************************************************)
(* Inputs.  The field values the model draws artworks from: the falsy     *)
(* values null and '', a value shared by two categories ("a"), a value     *)
(* that contains the separator ("a:b", whose prefix "a" is a value too)    *)
(* and a value that starts with it (":p").                                 *)
(***************************************************************************)
ImageIds == {null, <<>>, <<"i">>}
Artists == {<<"a">>, <<"a", ":", "b">>}
Styles == {<<>>, <<"a">>}
Places == {null, <<":", "p">>}
Values == Artists \cup Styles \cup Places

\* an artwork of the API: the fields of line 16
mkArtwork(id, image_id, artist_title, style_title, place_of_origin) ==
    [id              |-> id,
     title           |-> <<"title">>,
     artist_title    |-> artist_title,
     date_display    |-> <<"date">>,
     image_id        |-> image_id,
     style_title     |-> style_title,
     place_of_origin |-> place_of_origin,
     medium_display  |-> <<"medium">>]

\* the museum's catalog as the session sees it: four artworks
Catalog ==
    {mkArtwork(1, <<"i">>, <<"a">>, <<"a">>, null),
     mkArtwork(2, <<"i">>, <<"a", ":", "b">>, <<>>, null),
     mkArtwork(3, null, <<"a">>, <<"a">>, <<":", "p">>),
     mkArtwork(4, <<"i">>, null, <<>>, <<":", "p">>)}

\* sequences over S without repetition, of length at most n
RECURSIVE distinctSeqs(_, _)
distinctSeqs(S, n) ==
    IF n = 0 THEN {<<>>}
    ELSE LET shorter == distinctSeqs(S, n - 1)
         IN  shorter \cup
             UNION {{Append(q, x) : x \in S \ {q[i] : i \in 1..Len(q)}} : q \in shorter}

\* the batches a response of the session carries: identifiers are unique
\* within a batch
Batches == distinctSeqs(Catalog, MaxBatch)

\* the parsed bodies response.json() can yield
Bodies == {JsonNull, NoData} \cup {WithData(b) : b \in Batches}

\* req when no call is in flight
Idle == [pc |-> "idle", by |-> "none", ok |-> TRUE, ban |-> <<>>]

\* calls when no call is in flight
NoCalls == <<>>

(***************************************************************************)
(* The session: Init is the component after its first render.              *)
(***************************************************************************)
Init ==
    /\ item = NoItem
    /\ loading = FALSE
    /\ error = NoError
    /\ banList = <<>>
    /\ mounted = FALSE
    /\ req = Idle
    /\ data = NoData
    /\ filteredArtworks = <<>>
    /\ before = <<>>
    /\ args = <<>>
    /\ count = 0
    /\ calls = NoCalls
    /\ chosen = NoItem

\* lines 11-19: fetchRandomArtwork up to its first await; the closure keeps
\* the banList of the render that created it
startFetch(by) ==
    /\ loading' = TRUE
    /\ error' = NoError
    /\ req' = [pc |-> "fetch", by |-> by, ok |-> TRUE, ban |-> banList]
    /\ UNCHANGED <<item, banList>>

\* lines 78-80: the mount effect
Mount ==
    /\ ~mounted
    /\ mounted' = TRUE
    /\ startFetch("mount")
    /\ UNCHANGED <<filterVars, toggleVars, overlapVars>>

\* variant of the button without disabled={loading} (line 164)
Discover_neverDisabled ==
    /\ mounted
    /\ startFetch("discover")
    /\ UNCHANGED <<mounted, filterVars, toggleVars, overlapVars>>

\* lines 161-167: the Discover button, disabled while loading
Discover ==
    /\ mounted
    /\ ~loading
    /\ startFetch("discover")
    /\ UNCHANGED <<mounted, filterVars, toggleVars, overlapVars>>

\* line 19: fetch resolves with a response, whatever its status
FetchResolves(ok) ==
    /\ req.pc = "fetch"
    /\ req' = [req EXCEPT !.pc = "json", !.ok = ok]
    /\ UNCHANGED <<item, loading, error, banList, mounted, filterVars, toggleVars, overlapVars>>

\* variant of the catch path without the finally block of lines 73-75
catchError_withoutFinally ==
    /\ error' = MsgFetchError
    /\ req' = Idle
    /\ UNCHANGED <<item, loading, banList, mounted>>

\* lines 71-75: the catch and finally blocks
catchError ==
    /\ error' = MsgFetchError
    /\ loading' = FALSE
    /\ req' = Idle
    /\ UNCHANGED <<item, banList, mounted>>

\* line 19: fetch rejects (no connectivity)
FetchRejects ==
    /\ req.pc = "fetch"
    /\ catchError
    /\ UNCHANGED <<filterVars, toggleVars, overlapVars>>

\* line 20: response.json() rejects (the body is not JSON)
JsonRejects ==
    /\ req.pc = "json"
    /\ catchError
    /\ UNCHANGED <<filterVars, toggleVars, overlapVars>>

\* variant in which the continuation reads the ban list of the latest render
\* (as it would through a ref) instead of the one its closure captured
closureBanList_latestRender == banList

\* the banList that lines 29, 34 and 39 read: the constant of the render whose
\* fetchRandomArtwork was called
closureBanList == req.ban

\* lines 20-75: response.json() resolves with body and the function runs to
\* its end
continuation(body, randomIndex) ==
    /\ req.pc = "json"
    /\ item' = resume(body, closureBanList, randomIndex, item, error).item
    /\ error' = resume(body, closureBanList, randomIndex, item, error).error
    /\ loading' = FALSE
    /\ req' = Idle
    /\ UNCHANGED <<banList, mounted>>

JsonResolves ==
    \E body \in Bodies : \E randomIndex \in randomIndices(body, closureBanList) :
        /\ continuation(body, randomIndex)
        /\ UNCHANGED <<filterVars, toggleVars, overlapVars>>

\* lines 119, 130-153: a click on an attribute of the displayed record
ClickAttribute(type) ==
    /\ item /= NoItem
    /\ ~loading
    /\ banList' = clickAttribute(banList, item, type)
    /\ Len(banList') <= MaxBan
    /\ UNCHANGED <<item, loading, error, mounted, req, filterVars, toggleVars, overlapVars>>

\* lines 179-180: a click on the index-th entry of the ban list
ClickBanEntry(index) ==
    /\ index \in 1..Len(banList)
    /\ banList' = clickBanEntry(banList, index)
    /\ Len(banList') <= MaxBan
    /\ UNCHANGED <<item, loading, error, mounted, req, filterVars, toggleVars, overlapVars>>

Next ==
    \/ Mount
    \/ Discover
    \/ \E ok \in BOOLEAN : FetchResolves(ok)
    \/ FetchRejects
    \/ JsonRejects
    \/ JsonResolves
    \/ \E type \in Types : ClickAttribute(type)
    \/ \E index \in 1..MaxBan : ClickBanEntry(index)

Spec == Init /\ [][Next]_vars

(***************************************************************************)
(* The filter and the continuation on their own: every batch over the      *)
(* field values above, against every ban list the session can hold.  The   *)
(* call has reached `await response.json()`; `data` is the body it is      *)
(* about to get.                                                           *)
(***************************************************************************)
\* the entries handleBanToggle can create from the field values (line 85)
BanEntries ==
    {banValueOf(TypeArtist, v) : v \in {a \in Artists : Truthy(a)}}
    \cup {banValueOf(TypeStyle, v) : v \in {a \in Styles : Truthy(a)}}
    \cup {banValueOf(TypePlace, v) : v \in {a \in Places : Truthy(a)}}

\* the ban lists of at most MaxBan entries
BanLists == distinctSeqs(BanEntries, MaxBan)

\* the field combinations of an artwork
Shapes == ImageIds \X Artists \X Styles \X Places

\* the batches of n artworks, identified by their position in the batch
batchesOfLen(n) ==
    {[i \in 1..n |-> mkArtwork(i, f[i][1], f[i][2], f[i][3], f[i][4])] :
        f \in [1..n -> Shapes]}

\* the parsed bodies: no array, or a batch of at most MaxBatch artworks
isBody(body) ==
    \/ body \in {JsonNull, NoData}
    \/ \E n \in 0..MaxBatch : \E b \in batchesOfLen(n) : body = WithData(b)

InitFilter ==
    /\ item = NoItem
    /\ loading = TRUE
    /\ error = NoError
    /\ banList \in BanLists
    /\ mounted = TRUE
    /\ req = [pc |-> "json", by |-> "discover", ok |-> TRUE, ban |-> banList]
    /\ isBody(data)
    /\ filteredArtworks = <<>>
    /\ before = <<>>
    /\ args = <<>>
    /\ count = 0
    /\ calls = NoCalls
    /\ chosen = NoItem

\* lines 20-75 on the body `data`, keeping the filter's result (line 24)
RunContinuation ==
    \E randomIndex \in randomIndices(data, closureBanList) :
        /\ continuation(data, randomIndex)
        /\ filteredArtworks' =
               IF data.kind = "data" /\ Len(data.data) > 0
               THEN filterArtworks(data.data, closureBanList)
               ELSE <<>>
        /\ UNCHANGED <<data, toggleVars, overlapVars>>

NextFilter == RunContinuation

SpecFilter == InitFilter /\ [][NextFilter]_vars

(***************************************************************************)
(* handleBanToggle on its own: the same toggle applied once and twice to   *)
(* every ban list.                                                         *)
(***************************************************************************)
InitToggle ==
    /\ item = NoItem
    /\ loading = FALSE
    /\ error = NoError
    /\ banList \in BanLists
    /\ mounted = TRUE
    /\ req = Idle
    /\ data = NoData
    /\ filteredArtworks = <<>>
    /\ before = banList
    /\ args = <<>>
    /\ count = 0
    /\ calls = NoCalls
    /\ chosen = NoItem

\* handleBanToggle(type, value), lines 82-94, called for the first or the
\* second time in succession with the same arguments
Toggle(type, value) ==
    /\ count < 2
    /\ count = 0 \/ args = <<type, value>>
    /\ banList' = handleBanToggle(banList, type, value)
    /\ before' = IF count = 0 THEN banList ELSE before
    /\ args' = <<type, value>>
    /\ count' = count + 1
    /\ UNCHANGED <<item, loading, error, mounted, req, filterVars, overlapVars>>

NextToggle == \E type \in Types : \E value \in Values : Toggle(type, value)

SpecToggle == InitToggle /\ [][NextToggle]_vars

(***************************************************************************)
(* Vocabulary of the properties.                                           *)
(***************************************************************************)
\* line 119: the record is rendered when `item && !loading`
displayed == item /= NoItem /\ ~loading

\* lines 29, 131: the pair (type, value) is in the ban list bl
isBanned(bl, type, value) == includes(bl, banValueOf(type, value))

\* the artist, style or place of a displayed record forms a banned pair
itemMatchesBan(it, bl) ==
    \E type \in Types :
        Truthy(attributeOf(it, type)) /\ isBanned(bl, type, attributeOf(it, type))

\* the field of an artwork of the batch that a ban type is about
fieldOf(artwork, type) ==
    IF type = TypeArtist THEN artwork.artist_title
    ELSE IF type = TypeStyle THEN artwork.style_title
    ELSE artwork.place_of_origin

\* the artist, style or place of an artwork of the batch forms a banned pair
artworkMatchesBan(artwork, bl) ==
    \E type \in Types :
        Truthy(fieldOf(artwork, type)) /\ isBanned(bl, type, fieldOf(artwork, type))

\* a step in which a call of fetchRandomArtwork ends
refreshEnds == req.pc /= "idle" /\ req'.pc = "idle"

\* a step in which a call ends having set a record (line 67): no message is set
refreshSucceeds == refreshEnds /\ error' = NoError

\* a step in which a call ends with one of the three messages
refreshFails == refreshEnds /\ error' /= NoError

(***************************************************************************)
(* C1.  As claimed: in every reachable state, a displayed record matches   *)
(* no entry of the current ban list.                                       *)
(***************************************************************************)
C1_DisplayedNeverBanned == displayed => ~itemMatchesBan(item, banList)

\* C1, amended: the record a refresh puts on display matches no entry of
\* the ban list as it was when that refresh was triggered (a record that is
\* already on display can match entries banned since then).
C1_ChosenRecordNotBannedAtTrigger ==
    [][refreshSucceeds => ~itemMatchesBan(item', req.ban)]_vars

\* a refresh has replaced a banned record by one the ban list does not match
C1_Witness == displayed /\ Len(banList) > 0 /\ ~itemMatchesBan(item, banList)

(***************************************************************************)
(* C2.  When a refresh started by the Discover button succeeds, the record *)
(* it displays matches no entry of the ban list as it stands at that       *)
(* moment, clicks on ban-list entries during the request included.         *)
(***************************************************************************)
C2_DiscoverRespectsCurrentBanList ==
    [][(refreshSucceeds /\ req.by = "discover") => ~itemMatchesBan(item', banList')]_vars

(***************************************************************************)
(* C3.  No record of the filtered batch lacks an image reference, and none *)
(* has an artist, style or place that forms a banned pair.                 *)
(***************************************************************************)
C3_FilteredBatchClean ==
    \A i \in 1..Len(filteredArtworks) :
        /\ Truthy(filteredArtworks[i].image_id)
        /\ ~artworkMatchesBan(filteredArtworks[i], banList)

\* the filter has run on a batch of two, dropped the first record (which has
\* an image) for a banned attribute and kept the second
C3_Witness ==
    /\ req.pc = "idle"
    /\ data.kind = "data"
    /\ Len(data.data) = 2
    /\ Truthy(data.data[1].image_id)
    /\ artworkMatchesBan(data.data[1], banList)
    /\ filteredArtworks = <<data.data[2]>>

(***************************************************************************)
(* C4.  As claimed: toggle(c, v) applied twice in succession with a        *)
(* non-empty v gives back the original ban list, entries and order, both   *)
(* when (c, v) was absent and when it was present at any position.         *)
(***************************************************************************)
C4_ToggleTwiceRestores ==
    count = 2 => (Truthy(args[2]) => banList = before)

\* C4, amended: toggle(c, v) applied twice with a non-empty v gives back the
\* original ban list when (c, v) was absent; when (c, v) was present it ends
\* up as the last entry, with the other entries in their original order (so
\* the list is the original one only if (c, v) was already last).
C4_ToggleTwiceMovesToEnd ==
    count = 2 =>
        (Truthy(args[2]) =>
            LET entry == banValueOf(args[1], args[2])
            IN  IF includes(before, entry)
                THEN banList = Append(SelectSeq(before, LAMBDA it : it /= entry), entry)
                ELSE banList = before)

\* an entry that was not last has been toggled twice and the list has changed
C4_Witness ==
    /\ count = 2
    /\ Truthy(args[2])
    /\ includes(before, banValueOf(args[1], args[2]))
    /\ before[Len(before)] /= banValueOf(args[1], args[2])
    /\ banList /= before

(***************************************************************************)
(* C5.  A click on an entry of the ban-list display removes exactly that   *)
(* entry and leaves the others in place, whatever characters its value     *)
(* contains.                                                               *)
(***************************************************************************)
C5_ClickRemovesEntry ==
    [][\A index \in 1..MaxBan :
          ClickBanEntry(index) =>
              banList' = SubSeq(banList, 1, index - 1)
                             \o SubSeq(banList, index + 1, Len(banList))]_vars

(***************************************************************************)
(* C6.  The ban list never holds the same (category, value) pair twice.    *)
(***************************************************************************)
C6_NoDuplicateEntries ==
    \A i, j \in 1..Len(banList) : i /= j => banList[i] /= banList[j]

\* two pairs are banned while a record is on display
C6_Witness == displayed /\ Len(banList) >= 2

(***************************************************************************)
(* C7.  A refresh that ends with an error message leaves the record and    *)
(* the ban list as they were before it started: no step of the call        *)
(* changes the ban list, the record does not change while the call is in   *)
(* flight, and the step that ends it with a message changes neither.       *)
(***************************************************************************)
C7_FailedRefreshKeepsState ==
    [][/\ req' /= req => banList' = banList
       /\ req'.pc /= "idle" => item' = item
       /\ refreshFails => item' = item /\ banList' = banList]_vars

\* a refresh has ended with the ban-list message while a record and a ban
\* list were there to keep
C7_Witness ==
    /\ req.pc = "idle"
    /\ error = MsgNoMatch
    /\ item /= NoItem
    /\ Len(banList) > 0

(***************************************************************************)
(* C8.  Every successful refresh appends the chosen record to the session  *)
(* history, whose last element is the record on display.                   *)
(***************************************************************************)
\* the session history the component keeps: lines 5-8 declare item, loading,
\* error and banList and no history, and setItem (line 67) replaces the record
history == <<>>

C8_HistoryRecordsDisplays ==
    /\ [](item /= NoItem => (Len(history) > 0 /\ history[Len(history)] = item))
    /\ [][refreshSucceeds => history' = Append(history, item')]_vars

(***************************************************************************)
(* C9.  The outcome is the empty-batch message only when the data array is *)
(* absent or empty, and the ban-list message exactly when the batch is     *)
(* non-empty and the filter leaves nothing of it.                          *)
(***************************************************************************)
C9_EmptyOutcomesDistinguished ==
    req.pc = "idle" =>
        /\ error = MsgNoArtworks =>
               (data.kind = "nodata" \/ (data.kind = "data" /\ Len(data.data) = 0))
        /\ error = MsgNoMatch <=>
               (/\ data.kind = "data"
                /\ Len(data.data) > 0
                /\ Len(filteredArtworks) = 0)

\* a full batch whose records all have an image has been filtered away
C9_Witness ==
    /\ req.pc = "idle"
    /\ error = MsgNoMatch
    /\ data.kind = "data"
    /\ Len(data.data) >= 2
    /\ \A i \in 1..Len(data.data) : Truthy(data.data[i].image_id)

(***************************************************************************)
(* C10.  A request answered with a non-2xx status ends with the            *)
(* fetch-error message: never with the empty-batch message, never with a   *)
(* new record.                                                             *)
(***************************************************************************)
C10_BadStatusIsFetchError ==
    [][(refreshEnds /\ req.pc = "json" /\ ~req.ok) =>
           (error' = MsgFetchError /\ item' = item)]_vars

(***************************************************************************)
(* C11.  toggle(c, v) with an empty or absent v (a click on an attribute   *)
(* shown as 'Unknown') leaves the ban list unchanged, for every category   *)
(* and every ban list.                                                     *)
(***************************************************************************)
C11_EmptyValueIsNoOp ==
    count > 0 => (~Truthy(args[2]) => banList = before)

\* a non-empty ban list has been toggled with the absent value
C11_Witness ==
    /\ count > 0
    /\ args[2] = null
    /\ Len(before) > 0
    /\ banList = before

(***************************************************************************)
(* C12.  The record a successful refresh displays is one element of that   *)
(* refresh's filtered batch, its id, artist, style, place and image all    *)
(* from that element; a filtered batch of one record displays that record. *)
(***************************************************************************)
\* the displayed record it carries the fields of this artwork (lines 56-65)
itemIsFrom(it, artwork) ==
    /\ it.id = artwork.id
    /\ it.artist = artwork.artist_title
    /\ it.style = artwork.style_title
    /\ it.place = artwork.place_of_origin
    /\ it.imageUrl = imageUrlOf(artwork.image_id)

C12_DisplayedIsFilteredElement ==
    (req.pc = "idle" /\ error = NoError) =>
        /\ \E i \in 1..Len(filteredArtworks) : itemIsFrom(item, filteredArtworks[i])
        /\ Len(filteredArtworks) = 1 => itemIsFrom(item, filteredArtworks[1])

\* the first record of a batch of two was filtered out and the second, the
\* only survivor, is the one on display
C12_Witness ==
    /\ req.pc = "idle"
    /\ error = NoError
    /\ Len(data.data) = 2
    /\ Len(filteredArtworks) = 1
    /\ itemIsFrom(item, data.data[2])

(***************************************************************************)
(* C13.  A toggle(c, v) with a non-empty v changes the ban list by exactly *)
(* one entry: an absent (c, v) is appended as the last entry and the       *)
(* existing entries keep their positions; a present (c, v) is the only     *)
(* entry removed and the others keep their relative order.                 *)
(***************************************************************************)
C13_ToggleChangesOneEntry ==
    [][\A type \in Types : \A value \in Values :
          (Toggle(type, value) /\ Truthy(value)) =>
              LET entry == banValueOf(type, value)
              IN  IF includes(banList, entry)
                  THEN \E k \in 1..Len(banList) :
                          /\ banList[k] = entry
                          /\ banList' = SubSeq(banList, 1, k - 1)
                                            \o SubSeq(banList, k + 1, Len(banList))
                  ELSE /\ Len(banList') = Len(banList) + 1
                       /\ banList'[Len(banList')] = entry
                       /\ \A i \in 1..Len(banList) : banList'[i] = banList[i]]_vars

\* the first of two entries has been toggled away and the second is left
C13_Witness ==
    /\ count = 1
    /\ Truthy(args[2])
    /\ Len(before) = 2
    /\ before[1] = banValueOf(args[1], args[2])
    /\ banList = <<before[2]>>

(***************************************************************************)
(* C14.  The filter drops nothing else: every record of the batch that has *)
(* an image and whose non-empty artist, style and place are not banned is  *)
(* kept, in batch order; an absent or empty attribute never gets a record  *)
(* dropped, whatever the ban list holds.                                   *)
(***************************************************************************)
C14_FilterDropsNothingElse ==
    (req.pc = "idle" /\ data.kind = "data" /\ Len(data.data) > 0) =>
        filteredArtworks =
            SelectSeq(data.data,
                      LAMBDA artwork : /\ Truthy(artwork.image_id)
                                       /\ ~artworkMatchesBan(artwork, banList))

\* against a non-empty ban list both records of a batch are kept, in order,
\* the first without a style and the second without a place
C14_Witness ==
    /\ req.pc = "idle"
    /\ Len(banList) > 0
    /\ data.kind = "data"
    /\ Len(filteredArtworks) = 2
    /\ filteredArtworks = data.data
    /\ ~Truthy(filteredArtworks[1].style_title)
    /\ ~Truthy(filteredArtworks[2].place_of_origin)

(***************************************************************************)
(* C15.  Every refresh that is started eventually finishes, and finishes   *)
(* with loading false, whatever its outcome, provided the network call     *)
(* eventually returns or fails.                                            *)
(***************************************************************************)
\* the session with a network that answers: a pending fetch eventually
\* resolves or rejects, and so does a pending response.json()
FairSpec ==
    /\ Spec
    /\ WF_vars((\E ok \in BOOLEAN : FetchResolves(ok)) \/ FetchRejects)
    /\ WF_vars(JsonResolves \/ JsonRejects)

C15_RefreshEventuallyEnds ==
    /\ (req.pc /= "idle") ~> (req.pc = "idle" /\ ~loading)
    /\ loading ~> ~loading
    /\ [][refreshEnds => ~loading']_vars

\* a refresh started over a displayed record has ended in the catch block
C15_Witness ==
    /\ mounted
    /\ req.pc = "idle"
    /\ ~loading
    /\ error = MsgFetchError
    /\ item /= NoItem

(***************************************************************************)
(* C16.  At most one refresh is in flight at any time and loading is true  *)
(* exactly while one is: a refresh is started once by the mount effect and *)
(* afterwards only by the Discover button, which is disabled while loading *)
(* is true, so no call starts while another is in flight.                  *)
(***************************************************************************)
C16_OneRefreshInFlight ==
    /\ [](loading <=> req.pc /= "idle")
    /\ [][(Mount \/ Discover) => (req.pc = "idle" /\ ~loading)]_vars
    /\ [][(req.pc /= "fetch" /\ req'.pc = "fetch") =>
              \/ req'.by = "mount" /\ ~mounted
              \/ req'.by = "discover" /\ mounted /\ ~loading]_vars

\* a refresh started by the button is in flight, after bans were made
C16_Witness ==
    /\ req.by = "discover"
    /\ req.pc = "json"
    /\ loading
    /\ Len(banList) > 0

(***************************************************************************)
(* The continuation with clicks on the ban list while the request is in    *)
(* flight: `before` is the ban list at the moment the refresh was          *)
(* triggered, `data` the body the request is about to get.  (The record's  *)
(* attributes are not rendered while loading, so ban-list entries are what *)
(* can be clicked.)                                                        *)
(***************************************************************************)
InitInFlight ==
    /\ item = NoItem
    /\ loading = TRUE
    /\ error = NoError
    /\ banList \in BanLists
    /\ mounted = TRUE
    /\ req = [pc |-> "json", by |-> "discover", ok |-> TRUE, ban |-> banList]
    /\ data \in Bodies
    /\ filteredArtworks = <<>>
    /\ before = banList
    /\ args = <<>>
    /\ count = 0
    /\ calls = NoCalls
    /\ chosen = NoItem

NextInFlight ==
    \/ RunContinuation
    \/ \E index \in 1..MaxBan : ClickBanEntry(index)

SpecInFlight == InitInFlight /\ [][NextInFlight]_vars

(***************************************************************************)
(* C17.  A refresh filters its batch against the ban list as it was when   *)
(* the refresh was triggered: toggles made while the request is in flight  *)
(* change neither which records it excludes nor its outcome.               *)
(***************************************************************************)
C17_FiltersAgainstTriggerBanList ==
    req.pc = "idle" =>
        LET kept == IF data.kind = "data"
                    THEN SelectSeq(data.data,
                                   LAMBDA artwork : /\ Truthy(artwork.image_id)
                                                    /\ ~artworkMatchesBan(artwork, before))
                    ELSE <<>>
        IN  /\ filteredArtworks = kept
            /\ error = MsgNoMatch <=>
                   (data.kind = "data" /\ Len(data.data) > 0 /\ Len(kept) = 0)
            /\ error = NoError <=> Len(kept) > 0
            /\ error = NoError => \E i \in 1..Len(kept) : itemIsFrom(item, kept[i])

\* every entry was unbanned while the request was in flight, and the refresh
\* still ended with the message that the ban list excludes everything
C17_Witness ==
    /\ req.pc = "idle"
    /\ Len(before) > 0
    /\ banList = <<>>
    /\ error = MsgNoMatch

(***************************************************************************)
(* C18.  Starting a refresh clears the previous message, and when a        *)
(* refresh ends either it has set a record and no message is shown, or it  *)
(* has set exactly one message and no record; a message of an earlier      *)
(* refresh never survives a later successful one.                          *)
(***************************************************************************)
C18_OutcomeIsRecordOrMessage ==
    /\ [][(req.pc = "idle" /\ req'.pc = "fetch") => error' = NoError]_vars
    /\ [](req.pc /= "idle" => error = NoError)
    /\ [][refreshEnds =>
              \/ error' = NoError /\ item' /= NoItem
              \/ error' \in {MsgNoMatch, MsgNoArtworks, MsgFetchError} /\ item' = item]_vars

\* the button has started a refresh while no record was ever displayed: the
\* message the failed mount-time refresh left has been cleared
C18_Witness ==
    /\ req.by = "discover"
    /\ req.pc = "fetch"
    /\ item = NoItem
    /\ error = NoError

(***************************************************************************)
(* Overlapping refreshes.  Under src/ the mount effect runs once and the   *)
(* button is disabled while loading, so calls never overlap (C16).  The    *)
(* file that mounts App is not under src/; where it wraps App in           *)
(* StrictMode the mount effect runs twice and two calls are in flight at   *)
(* once, and since the first call to finish sets loading to false the      *)
(* button can start further calls while the other is still pending.        *)
(* `calls` holds the calls in flight in the order they were started; each  *)
(* keeps the banList of its own closure.  Every step of a call is the code *)
(* of fetchRandomArtwork; only the second run of the effect is taken from  *)
(* the specification's section on overlapping refreshes.                   *)
(***************************************************************************)
\* lines 11-19 for one more call while others may be in flight
startCall ==
    /\ loading' = TRUE
    /\ error' = NoError
    /\ calls' = Append(calls, [pc |-> "fetch", by |-> "overlap", ok |-> TRUE,
                               ban |-> banList])

\* lines 78-80 run twice in a row at mount: two calls of the same closure
MountTwice ==
    /\ ~mounted
    /\ mounted' = TRUE
    /\ loading' = TRUE
    /\ error' = NoError
    /\ calls' = calls \o
           << [pc |-> "fetch", by |-> "mount", ok |-> TRUE, ban |-> banList],
              [pc |-> "fetch", by |-> "mount", ok |-> TRUE, ban |-> banList] >>
    /\ UNCHANGED <<item, banList, req, chosen, filterVars, toggleVars>>

\* lines 161-167: the button is enabled whenever loading is false, also
\* while an earlier call is still pending
DiscoverOverlap ==
    /\ mounted
    /\ ~loading
    /\ Len(calls) < MaxCalls
    /\ startCall
    /\ UNCHANGED <<item, banList, mounted, req, chosen, filterVars, toggleVars>>

\* calls without its k-th element: the call has run to its end
finished(k) == SubSeq(calls, 1, k - 1) \o SubSeq(calls, k + 1, Len(calls))

\* line 19 of the k-th call: fetch resolves with a response (its status is
\* never read, line 20)
CallFetchResolves(k) ==
    /\ k \in 1..Len(calls)
    /\ calls[k].pc = "fetch"
    /\ calls' = [calls EXCEPT ![k].pc = "json"]
    /\ UNCHANGED <<item, loading, error, banList, mounted, req, chosen,
                   filterVars, toggleVars>>

\* lines 19-20, 71-75 of the k-th call: fetch or response.json() rejects
CallRejects(k) ==
    /\ k \in 1..Len(calls)
    /\ error' = MsgFetchError
    /\ loading' = FALSE
    /\ calls' = finished(k)
    /\ UNCHANGED <<item, banList, mounted, req, chosen, filterVars, toggleVars>>

\* lines 20-75 of the k-th call: response.json() resolves and the call runs
\* to its end; chosen follows the newItem that reaches line 67
CallResolves(k) ==
    /\ k \in 1..Len(calls)
    /\ calls[k].pc = "json"
    /\ \E body \in Bodies : \E randomIndex \in randomIndices(body, calls[k].ban) :
        /\ item' = resume(body, calls[k].ban, randomIndex, item, error).item
        /\ error' = resume(body, calls[k].ban, randomIndex, item, error).error
        /\ chosen' = IF body.kind = "data"
                        /\ Len(filterArtworks(body.data, calls[k].ban)) > 0
                     THEN newItem(filterArtworks(body.data, calls[k].ban)[randomIndex + 1])
                     ELSE chosen
    /\ loading' = FALSE
    /\ calls' = finished(k)
    /\ UNCHANGED <<banList, mounted, req, filterVars, toggleVars>>

NextOverlap ==
    \/ MountTwice
    \/ DiscoverOverlap
    \/ \E k \in 1..MaxCalls : CallFetchResolves(k)
    \/ \E k \in 1..MaxCalls : CallRejects(k)
    \/ \E k \in 1..MaxCalls : CallResolves(k)
    \/ \E type \in Types : ClickAttribute(type)
    \/ \E index \in 1..MaxBan : ClickBanEntry(index)

SpecOverlap == Init /\ [][NextOverlap]_vars

====
